---- MODULE Spec2Model ----
(***************************************************************************)
(* Model of Legacy/dashboard.py: the Streamlit dashboard over the          *)
(* categorized Jira export.  One script run of main() is one step; the     *)
(* data file on disk, the st.cache_data memo of load_data and the widget   *)
(* state of the browser session are the state.                             *)
(***************************************************************************)
EXTENDS Integers, Sequences, FiniteSets, TLC

\* Largest number of data rows of the CSV file.
MaxRows == 2
\* Number of distinct calendar days the well-formed dates are drawn from.
MaxDay == 2

Days == 1 .. MaxDay

VARIABLES
    disk,      \* the file at data_file
    cache,     \* the memo of load_data, by path
    reads,     \* how many times the file has been read
    widgets,   \* the widget state of the session
    page,      \* what the last run rendered
    reloaded   \* load_data of the downloaded export, once it has been loaded

vars == << disk, cache, reads, widgets, page, reloaded >>

----------------------------------------------------------------------------
\* Cell values

\* A missing value of an object column (float nan).  The text "nan" is one of
\* the tokens read_csv reads as missing, so no loaded string equals it.
NaN == "nan"
\* A missing value of a datetime column; days are counted from 1.
NaT == 0

\* Texts of day d in the format '%d/%m/%Y %H:%M' and as to_csv writes a
\* datetime64 value.
DMYText == << "01/03/2024 09:00", "02/03/2024 09:00",
              "03/03/2024 09:00", "04/03/2024 09:00" >>
ISOText == << "2024-03-01 09:00:00", "2024-03-02 09:00:00",
              "2024-03-03 09:00:00", "2024-03-04 09:00:00" >>

\* Some of the tokens pd.read_csv reads as a missing value (its default
\* na_values, keep_default_na=True).
NAValues == { "", "NA", "N/A", "nan", "NaN", "null" }

Columns == { "Summary", "Category", "Review_Flag",
             "Created", "Updated", "Last Viewed", "Resolved" }

date_columns == << "Created", "Updated", "Last Viewed", "Resolved" >>

data_file == "/Users/Spurthi.Serikari/Documents/Bolt Support Insights/Jira_ARLive_categorized.csv"

Row(s, c, f, cr, up, lv, rs) ==
    ("Summary" :> s) @@ ("Category" :> c) @@ ("Review_Flag" :> f) @@
    ("Created" :> cr) @@ ("Updated" :> up) @@ ("Last Viewed" :> lv) @@
    ("Resolved" :> rs)

Restrict(r, cs) == [ c \in cs |-> r[c] ]

Range(s) == { s[i] : i \in 1 .. Len(s) }

----------------------------------------------------------------------------
\* The files the dashboard may be pointed at

\* Lines of the export: resolved flagged bugs, an open ticket labelled "All",
\* a line without summary whose category is written "N/A" and whose dates are
\* malformed, and a flagged line with no category and no Created date.
RawRows ==
    { Row("Login fails", "Bug", "YES", DMYText[d], DMYText[d], "", DMYText[d])
        : d \in Days }
    \cup
    { Row("Export all", "All", "NO", DMYText[1], DMYText[1], DMYText[1], ""),
      Row("", "N/A", "", "yesterday", "n/a", "31-12-2024", ISOText[1]),
      Row("Slow page", "", "YES", "", DMYText[1], "", "13/13/2024 09:00") }

\* The complete header, and headers lacking one column.
ColSets ==
    { Columns, Columns \ {"Category"}, Columns \ {"Review_Flag"},
      Columns \ {"Created"} }

RawSeqs == UNION { [ 1 .. n -> RawRows ] : n \in 0 .. MaxRows }

\* A CSV file: whether it can be read, its header and its lines.
Files ==
    { [ readable |-> b, cols |-> cs,
        rows |-> [ i \in 1 .. Len(rs) |-> Restrict(rs[i], cs) ] ]
        : b \in BOOLEAN, cs \in ColSets, rs \in RawSeqs }

----------------------------------------------------------------------------
\* pandas

\* A DataFrame: its columns, its index labels and its rows.
EmptyFrame == [ cols |-> {}, index |-> << >>, data |-> << >> ]

\* What a call returns or raises.
Raised == [ ok |-> FALSE, df |-> EmptyFrame ]
Returned(df) == [ ok |-> TRUE, df |-> df ]

\* pd.read_csv(file_path): raises when the file cannot be read; else every
\* cell is its text, or NaN for a missing-value token; RangeIndex from 0.
read_csv(file) ==
    IF ~ file.readable
    THEN Raised
    ELSE Returned(
           [ cols  |-> file.cols,
             index |-> [ i \in 1 .. Len(file.rows) |-> i - 1 ],
             data  |-> [ i \in 1 .. Len(file.rows) |->
                           [ c \in file.cols |->
                               IF file.rows[i][c] \in NAValues
                               THEN NaN ELSE file.rows[i][c] ] ] ])

\* strptime of one text with format '%d/%m/%Y %H:%M'.
Parses(text) == \E d \in 1 .. Len(DMYText) : DMYText[d] = text
strptime(text) == CHOOSE d \in 1 .. Len(DMYText) : DMYText[d] = text

\* The column col with every text that parses replaced by its day and
\* every other value by NaT.
coerce_column(df, col) ==
    [ df EXCEPT !.data =
        [ i \in 1 .. Len(df.data) |->
            [ df.data[i] EXCEPT ![col] =
                IF @ # NaN /\ Parses(@) THEN strptime(@) ELSE NaT ] ] ]

to_datetime_strict(df, col, errors) ==
    IF \E i \in 1 .. Len(df.data) :
           df.data[i][col] # NaN /\ ~ Parses(df.data[i][col])
    THEN Raised
    ELSE Returned(coerce_column(df, col))

\* pd.to_datetime(series, format='%d/%m/%Y %H:%M', errors=errors) on column
\* col: with 'raise' a text that does not parse raises, with 'coerce' it
\* becomes NaT.
to_datetime(df, col, errors) ==
    IF errors = "raise" /\
       \E i \in 1 .. Len(df.data) :
           df.data[i][col] # NaN /\ ~ Parses(df.data[i][col])
    THEN Raised
    ELSE Returned(coerce_column(df, col))

\* series.fillna(value) on column col.
fillna(df, col, value) ==
    [ df EXCEPT !.data =
        [ i \in 1 .. Len(df.data) |->
            [ df.data[i] EXCEPT ![col] = IF @ = NaN THEN value ELSE @ ] ] ]

----------------------------------------------------------------------------
\* load_data

\* The loop over date_columns: a column that is present is converted, with
\* errors='coerce'; an exception ends the loop.
RECURSIVE convert_from(_, _, _)
convert_from(r, k, errors) ==
    IF k > Len(date_columns) \/ ~ r.ok
    THEN r
    ELSE convert_from(
           IF date_columns[k] \in r.df.cols
           THEN to_datetime(r.df, date_columns[k], errors)
           ELSE r,
           k + 1, errors)

convert_dates(df) == convert_from(Returned(df), 1, "coerce")

clean_category_only(df) ==
    IF "Category" \notin df.cols \/ "Review_Flag" \notin df.cols
    THEN Raised
    ELSE Returned(fillna(df, "Category", "Uncategorized"))

\* df['Category'] = df['Category'].fillna('Uncategorized'), and the same for
\* Review_Flag with 'NO'; df[col] raises KeyError when the column is missing.
clean_category_data(df) ==
    IF "Category" \notin df.cols
    THEN Raised
    ELSE LET d1 == fillna(df, "Category", "Uncategorized")
         IN  IF "Review_Flag" \notin d1.cols
             THEN Raised
             ELSE Returned(fillna(d1, "Review_Flag", "NO"))

\* The body of load_data: the frame, or None (ok = FALSE) after st.error when
\* anything in the try block raised.
load_data(file) ==
    LET read == read_csv(file)
        conv == IF read.ok THEN convert_dates(read.df) ELSE Raised
    IN  IF conv.ok THEN clean_category_data(conv.df) ELSE Raised

\* The memo st.cache_data keeps for load_data, keyed by the argument.
NoEntry == [ hit |-> FALSE, ok |-> FALSE, df |-> EmptyFrame ]

cache_data_off(memo, path, file) ==
    LET v == load_data(file)
    IN  [ value |-> v,
          memo  |-> [ memo EXCEPT ![path] =
                        [ hit |-> TRUE, ok |-> v.ok, df |-> v.df ] ],
          reads |-> 1 ]

\* @st.cache_data: the stored value when the path has an entry, else the
\* body runs once and its return value (None included) is stored.
\* Gives the value, the memo afterwards and the number of file reads.
cache_data(memo, path, file) ==
    IF memo[path].hit
    THEN [ value |-> [ ok |-> memo[path].ok, df |-> memo[path].df ],
           memo  |-> memo,
           reads |-> 0 ]
    ELSE LET v == load_data(file)
         IN  [ value |-> v,
               memo  |-> [ memo EXCEPT ![path] =
                             [ hit |-> TRUE, ok |-> v.ok, df |-> v.df ] ],
               reads |-> 1 ]

----------------------------------------------------------------------------
\* Helpers of main

\* The category labels in the order Python's sorted() gives strings.
LabelOrder == << "All", "Bug", "Uncategorized" >>

\* sorted(list of labels)
sorted(S) == SelectSeq(LabelOrder, LAMBDA l : l \in S)

\* The positions of the rows of a frame.
Positions(df) == 1 .. Len(df.data)

\* df[mask]: the rows at the positions where the mask holds, in order, with
\* their index labels.
Select(df, mask) ==
    LET keep == SelectSeq([ i \in Positions(df) |-> i ], LAMBDA i : i \in mask)
    IN  [ cols  |-> df.cols,
          index |-> [ k \in 1 .. Len(keep) |-> df.index[keep[k]] ],
          data  |-> [ k \in 1 .. Len(keep) |-> df.data[keep[k]] ] ]

\* df['Category'].unique()
unique_categories_of(df) == { df.data[i]["Category"] : i \in 1 .. Len(df.data) }

\* The options of the category selector.
category_options(df) == << "All" >> \o sorted(unique_categories_of(df))

review_options == << "All", "Flagged for Review", "Auto-Assigned" >>

\* The non-missing Created days of the frame.
created_days(df) ==
    IF "Created" \in df.cols
    THEN { df.data[i]["Created"] : i \in 1 .. Len(df.data) } \ { NaT }
    ELSE {}

Min(S) == CHOOSE x \in S : \A y \in S : x <= y
Max(S) == CHOOSE x \in S : \A y \in S : x >= y

apply_filters_to_last_view(df, selected_category, selected_review) ==
    LET last == IF page.status = "rendered" THEN page.filtered_df ELSE df
        by_category ==
            IF selected_category # "All"
            THEN Select(last, { i \in Positions(last) :
                                  last.data[i]["Category"] = selected_category })
            ELSE last
    IN  IF selected_review = "Flagged for Review"
        THEN Select(by_category, { i \in Positions(by_category) :
                                   by_category.data[i]["Review_Flag"] = "YES" })
        ELSE IF selected_review = "Auto-Assigned"
        THEN Select(by_category, { i \in Positions(by_category) :
                                   by_category.data[i]["Review_Flag"] = "NO" })
        ELSE by_category

\* The "Apply filters" block: a copy of df narrowed by the selected
\* category, then by the selected review status.
apply_filters(df, selected_category, selected_review) ==
    LET by_category ==
            IF selected_category # "All"
            THEN Select(df, { i \in Positions(df) :
                               df.data[i]["Category"] = selected_category })
            ELSE df
    IN  IF selected_review = "Flagged for Review"
        THEN Select(by_category, { i \in Positions(by_category) :
                                   by_category.data[i]["Review_Flag"] = "YES" })
        ELSE IF selected_review = "Auto-Assigned"
        THEN Select(by_category, { i \in Positions(by_category) :
                                   by_category.data[i]["Review_Flag"] = "NO" })
        ELSE by_category

\* create_summary_metrics: total, flagged, unique categories, resolved.
create_summary_metrics(df) ==
    << Len(df.data),
       Cardinality({ i \in Positions(df) : df.data[i]["Review_Flag"] = "YES" }),
       Cardinality(unique_categories_of(df)),
       Cardinality({ i \in Positions(df) : df.data[i]["Resolved"] # NaT }) >>

\* f"{x:.1f}" of x = 100 * part / whole, in tenths: the nearest tenth, a tie
\* going to the even one.
Format1f(part, whole) ==
    LET q == (1000 * part) \div whole
        r == (1000 * part) % whole
    IN  IF 2 * r > whole THEN q + 1
        ELSE IF 2 * r < whole THEN q
        ELSE IF q % 2 = 0 THEN q ELSE q + 1

percent_delta_ratio(part, total) ==
    IF total > 0
    THEN [ text |-> "x.x%", tenths |-> (20 * part + total) \div (2 * total) ]
    ELSE [ text |-> "0%", tenths |-> 0 ]

\* The delta of a metric: f"{(part/total*100):.1f}%" if total > 0 else "0%".
\* A formatted number is kept in tenths of a percent.
percent_delta(part, total) ==
    IF total > 0
    THEN [ text |-> "x.x%", tenths |-> Format1f(part, total) ]
    ELSE [ text |-> "0%", tenths |-> 0 ]

\* The Category Breakdown table: groupby('Category') with Summary counted
\* ('count' leaves out missing values), Review_Flag == 'YES' summed and
\* Resolved.notna() summed.
category_stats(df) ==
    LET keys == sorted(unique_categories_of(df))
    IN  [ k \in 1 .. Len(keys) |->
            [ Category |-> keys[k],
              Total    |-> Cardinality({ i \in Positions(df) :
                               /\ df.data[i]["Category"] = keys[k]
                               /\ df.data[i]["Summary"] # NaN }),
              Flagged  |-> Cardinality({ i \in Positions(df) :
                               /\ df.data[i]["Category"] = keys[k]
                               /\ df.data[i]["Review_Flag"] = "YES" }),
              Resolved |-> Cardinality({ i \in Positions(df) :
                               /\ df.data[i]["Category"] = keys[k]
                               /\ df.data[i]["Resolved"] # NaT }) ] ]

to_csv_no_header(df) ==
    [ readable |-> TRUE, cols |-> {}, rows |-> << >> ]

\* filtered_df.to_csv(index=False): the header and one line per row; a
\* missing value is written as the empty text, a datetime in ISO form.
to_csv(df) ==
    [ readable |-> TRUE,
      cols |-> df.cols,
      rows |-> [ i \in 1 .. Len(df.data) |->
                   [ c \in df.cols |->
                       IF c \in Range(date_columns)
                       THEN IF df.data[i][c] = NaT THEN ""
                            ELSE ISOText[df.data[i][c]]
                       ELSE IF df.data[i][c] = NaN THEN ""
                            ELSE df.data[i][c] ] ] ]

NoFile == [ readable |-> FALSE, cols |-> {}, rows |-> << >> ]

----------------------------------------------------------------------------
\* main: one script run

NoDates == << NaT, NaT >>

\* What a run that stops at "if df is None" leaves on the page: the message
\* of load_data and the message of main, and nothing else.
FailedPage ==
    [ status |-> "failed",
      messages |-> << "Error loading data",
                      "Failed to load data. Please check the file path and format." >>,
      categories |-> << >>,
      review_options |-> << >>,
      date_input |-> FALSE,
      min_date |-> NaT,
      max_date |-> NaT,
      selected_category |-> "",
      selected_review |-> "",
      date_range |-> NoDates,
      filtered_df |-> EmptyFrame,
      metrics |-> << 0, 0, 0, 0 >>,
      flagged_delta |-> [ text |-> "", tenths |-> 0 ],
      resolved_delta |-> [ text |-> "", tenths |-> 0 ],
      category_stats |-> << >>,
      csv_offered |-> FALSE,
      csv |-> NoFile ]

\* The page before the first run.
BlankPage == [ FailedPage EXCEPT !.status = "none", !.messages = << >> ]

\* main() after "if df is None": the controls, the filters, the metrics,
\* the Category Breakdown table and the export, for widget state w; clicked
\* says whether the download button triggered the run.
render(df, w, clicked) ==
    LET categories == category_options(df)
        \* a selectbox whose stored position is no option shows its first
        ix == IF w.category_ix \in 1 .. Len(categories) THEN w.category_ix ELSE 1
        selected_category == categories[ix]
        selected_review == w.review
        date_input == created_days(df) # {}
        min_date == IF date_input THEN Min(created_days(df)) ELSE NaT
        max_date == IF date_input THEN Max(created_days(df)) ELSE NaT
        date_range ==
            IF ~ date_input THEN NoDates
            ELSE IF w.date_range = NoDates THEN << min_date, max_date >>
            ELSE w.date_range
        filtered_df == apply_filters(df, selected_category, selected_review)
        metrics == create_summary_metrics(filtered_df)
    IN  [ status |-> "rendered",
          messages |-> << >>,
          categories |-> categories,
          review_options |-> review_options,
          date_input |-> date_input,
          min_date |-> min_date,
          max_date |-> max_date,
          selected_category |-> selected_category,
          selected_review |-> selected_review,
          date_range |-> date_range,
          filtered_df |-> filtered_df,
          metrics |-> metrics,
          flagged_delta |-> percent_delta(metrics[2], metrics[1]),
          resolved_delta |-> percent_delta(metrics[4], metrics[1]),
          category_stats |-> category_stats(filtered_df),
          csv_offered |-> clicked,
          csv |-> IF clicked THEN to_csv(filtered_df) ELSE NoFile ]

main_without_check(value, w, clicked) == render(value.df, w, clicked)

\* main() on the value load_data gave: the failure message and return when
\* it is None, else the page.
main(value, w, clicked) ==
    IF ~ value.ok THEN FailedPage ELSE render(value.df, w, clicked)

----------------------------------------------------------------------------
\* The session

NotReloaded == [ done |-> FALSE, ok |-> FALSE, df |-> EmptyFrame ]

Init ==
    /\ disk \in Files
    /\ cache = [ p \in { data_file } |-> NoEntry ]
    /\ reads = 0
    /\ widgets = [ category_ix |-> 1, review |-> "All", date_range |-> NoDates ]
    /\ page = BlankPage
    /\ reloaded = NotReloaded

\* A script run with widget state w: load_data through its memo, then the
\* rest of main; the widgets keep what they returned.
Run(w, clicked) ==
    LET call == cache_data(cache, data_file, disk)
        out  == main(call.value, w, clicked)
    IN  /\ cache' = call.memo
        /\ reads' = reads + call.reads
        /\ page' = out
        /\ widgets' = IF out.status = "rendered"
                      THEN [ w EXCEPT !.date_range = out.date_range ]
                      ELSE w
        /\ reloaded' = NotReloaded
        /\ UNCHANGED disk

\* The browser opens the page: the first run of the session.
OpenPage ==
    /\ page.status = "none"
    /\ Run(widgets, FALSE)

\* The user reruns the script without touching a widget.
Rerun ==
    /\ page.status # "none"
    /\ Run(widgets, FALSE)

\* The user picks the i-th option of the category selector.
SelectCategory(i) ==
    /\ page.status = "rendered"
    /\ i \in 1 .. Len(page.categories)
    /\ i # widgets.category_ix
    /\ Run([ widgets EXCEPT !.category_ix = i ], FALSE)

\* The user picks a review status.
SelectReview(r) ==
    /\ page.status = "rendered"
    /\ r \in Range(page.review_options)
    /\ r # widgets.review
    /\ Run([ widgets EXCEPT !.review = r ], FALSE)

\* The user picks a date range within min_value .. max_value.
SelectDateRange(lo, hi) ==
    /\ page.status = "rendered"
    /\ page.date_input
    /\ lo \in page.min_date .. page.max_date
    /\ hi \in lo .. page.max_date
    /\ << lo, hi >> # widgets.date_range
    /\ Run([ widgets EXCEPT !.date_range = << lo, hi >> ], FALSE)

\* The user presses "Download Filtered Data".
ClickDownload ==
    /\ page.status = "rendered"
    /\ Run(widgets, TRUE)

\* The downloaded export is loaded with load_data; its file name carries the
\* time of the click, so the memo has no entry for it.
ReloadExport ==
    /\ page.csv_offered
    /\ ~ reloaded.done
    /\ reloaded' = [ done |-> TRUE,
                     ok |-> load_data(page.csv).ok,
                     df |-> load_data(page.csv).df ]
    /\ UNCHANGED << disk, cache, reads, widgets, page >>

\* The data file is moved away, or put back.
FileRemoved ==
    /\ disk.readable
    /\ disk' = [ disk EXCEPT !.readable = FALSE ]
    /\ UNCHANGED << cache, reads, widgets, page, reloaded >>

FileRestored ==
    /\ ~ disk.readable
    /\ disk' = [ disk EXCEPT !.readable = TRUE ]
    /\ UNCHANGED << cache, reads, widgets, page, reloaded >>

Next ==
    \/ OpenPage
    \/ Rerun
    \/ \E i \in 1 .. Cardinality(Columns) : SelectCategory(i)
    \/ \E r \in Range(review_options) : SelectReview(r)
    \/ \E lo \in Days, hi \in Days : SelectDateRange(lo, hi)
    \/ ClickDownload
    \/ ReloadExport
    \/ FileRemoved
    \/ FileRestored

Spec == Init /\ [][Next]_vars

----------------------------------------------------------------------------
\* Properties

\* The value load_data gave for data_file, once it has been called.
loaded == cache[data_file]

required_columns == { "Category", "Review_Flag" }

RECURSIVE SumTotal(_)
SumTotal(stats) ==
    IF stats = << >> THEN 0 ELSE Head(stats).Total + SumTotal(Tail(stats))

\* The index labels of the rows of a frame.
Labels(df) == Range(df.index)

\* C1: after a successful load_data every row has a Category and a
\* Review_Flag: "Uncategorized" and "NO" where the file had a missing value,
\* the value of the file everywhere else.
C1_DefaultsSubstituted ==
    (loaded.hit /\ loaded.ok) =>
        /\ Len(loaded.df.data) = Len(disk.rows)
        /\ \A i \in 1 .. Len(disk.rows) :
            /\ loaded.df.data[i]["Category"] # NaN
            /\ loaded.df.data[i]["Review_Flag"] # NaN
            /\ loaded.df.data[i]["Category"] =
                   IF disk.rows[i]["Category"] \in NAValues
                   THEN "Uncategorized" ELSE disk.rows[i]["Category"]
            /\ loaded.df.data[i]["Review_Flag"] =
                   IF disk.rows[i]["Review_Flag"] \in NAValues
                   THEN "NO" ELSE disk.rows[i]["Review_Flag"]

\* A loaded table with a row whose category was missing, a row whose review
\* flag was missing and a row that had both.
C1_Witness ==
    /\ loaded.hit /\ loaded.ok
    /\ \E i \in 1 .. Len(disk.rows) : disk.rows[i]["Category"] \in NAValues
    /\ \E i \in 1 .. Len(disk.rows) : disk.rows[i]["Review_Flag"] \in NAValues
    /\ \E i \in 1 .. Len(disk.rows) :
          /\ disk.rows[i]["Category"] \notin NAValues
          /\ disk.rows[i]["Review_Flag"] \notin NAValues

\* C2: on every rendered page the 'Total' column of the Category Breakdown
\* table sums to the number of rows of the filtered view.
C2_BreakdownTotalsSumToRowCount ==
    page.status = "rendered" =>
        SumTotal(page.category_stats) = Len(page.filtered_df.data)

\* C3: with review status 'All', picking an entry of the category selector
\* other than its first gives exactly the loaded rows of that category, and
\* the views of all categories of the table together hold every loaded row
\* once.
C3_CategoryFilterExact ==
    (page.status = "rendered" /\ page.selected_review = "All"
        /\ widgets.category_ix > 1) =>
        /\ Labels(page.filtered_df) =
               { loaded.df.index[i] : i \in
                   { j \in 1 .. Len(loaded.df.data) :
                       loaded.df.data[j]["Category"] = page.selected_category } }
        /\ Len(page.filtered_df.data) = Cardinality(Labels(page.filtered_df))
        /\ \A i \in 1 .. Len(loaded.df.data) :
               Cardinality({ k \in 2 .. Len(page.categories) :
                   loaded.df.index[i] \in
                       Labels(apply_filters(loaded.df, page.categories[k], "All")) }) = 1

\* The review status selected, as a condition on a row.
ReviewMatches(r, selected_review) ==
    \/ selected_review = "All"
    \/ selected_review = "Flagged for Review" /\ r["Review_Flag"] = "YES"
    \/ selected_review = "Auto-Assigned" /\ r["Review_Flag"] = "NO"

\* C4: the filtered view is the loaded rows matching the selected category,
\* the selected review status and the selected date range on Created (a row
\* without a Created date is in no range and is not judged here), and the
\* export holds one line for each of them.
C4_ViewMatchesEveryFilter ==
    (page.status = "rendered" /\ page.date_input) =>
        /\ Labels(page.filtered_df) =
               { loaded.df.index[i] : i \in
                   { j \in 1 .. Len(loaded.df.data) :
                       /\ \/ page.selected_category = "All"
                          \/ loaded.df.data[j]["Category"] = page.selected_category
                       /\ ReviewMatches(loaded.df.data[j], page.selected_review)
                       /\ \/ loaded.df.data[j]["Created"] = NaT
                          \/ loaded.df.data[j]["Created"] \in
                                 page.date_range[1] .. page.date_range[2] } }
        /\ page.csv_offered =>
               Len(page.csv.rows) = Cardinality(Labels(page.filtered_df))

\* C5: the delta of "Flagged for Review" is the share of rows of the view
\* with Review_Flag = 'YES', in percent to the nearest tenth, and the delta
\* of "Resolved" the share of rows with a Resolved date; both are the text
\* "0%" when the view has no row.
C5_Percentages ==
    page.status = "rendered" =>
        LET view == page.filtered_df.data
            total == Len(view)
            flagged == Cardinality({ i \in 1 .. total : view[i]["Review_Flag"] = "YES" })
            resolved == Cardinality({ i \in 1 .. total : view[i]["Resolved"] # NaT })
            Nearest(d, part) ==
                /\ d.text = "x.x%"
                /\ 2 * (d.tenths * total - 1000 * part) <= total
                /\ 2 * (1000 * part - d.tenths * total) <= total
        IN  IF total = 0
            THEN /\ page.flagged_delta = [ text |-> "0%", tenths |-> 0 ]
                 /\ page.resolved_delta = [ text |-> "0%", tenths |-> 0 ]
            ELSE /\ Nearest(page.flagged_delta, flagged)
                 /\ Nearest(page.resolved_delta, resolved)

\* A view of which some rows, not all, are flagged.
C5_Witness ==
    /\ page.status = "rendered"
    /\ page.flagged_delta.text = "x.x%"
    /\ page.flagged_delta.tenths \notin { 0, 1000 }

\* A view without rows, its deltas reported as "0%".
C5_WitnessEmptyView ==
    /\ page.status = "rendered"
    /\ page.metrics[1] = 0
    /\ page.resolved_delta.text = "0%"

\* Nothing of the dashboard is on the page.
NothingRendered ==
    /\ page.categories = << >>
    /\ page.review_options = << >>
    /\ ~ page.date_input
    /\ page.filtered_df = EmptyFrame
    /\ page.flagged_delta.text = ""
    /\ page.resolved_delta.text = ""
    /\ page.category_stats = << >>
    /\ ~ page.csv_offered

\* C6: a run in which load_data is called on a file that cannot be read, or
\* that lacks Category or Review_Flag, gets None from it, shows the message
\* of load_data and the failure message of main, renders nothing else, and
\* reads the file once.
C6_LoadFailureStopsRun ==
    [][ ( /\ ~ loaded.hit
          /\ loaded'.hit
          /\ ~ disk.readable \/ ~ (required_columns \subseteq disk.cols) )
        => /\ ~ loaded'.ok
           /\ page'.status = "failed"
           /\ "Error loading data" \in Range(page'.messages)
           /\ "Failed to load data. Please check the file path and format."
                  \in Range(page'.messages)
           /\ NothingRendered'
           /\ reads' = reads + 1 ]_vars

\* A failed run on a file that is readable but has no Category column.
C6_Witness ==
    /\ page.status = "failed"
    /\ disk.readable
    /\ "Category" \notin disk.cols
    /\ Len(disk.rows) > 0

\* C7: the export of a view, loaded again with load_data, has as many rows
\* as the view.
C7_ExportReloadKeepsRowCount ==
    reloaded.done =>
        /\ reloaded.ok
        /\ Len(reloaded.df.data) = Len(page.filtered_df.data)

\* An export of a view with rows, one of them without a Created date and one
\* with, loaded again.
C7_Witness ==
    /\ reloaded.done
    /\ "Created" \in page.filtered_df.cols
    /\ \E i \in 1 .. Len(page.filtered_df.data) :
           page.filtered_df.data[i]["Created"] = NaT
    /\ \E i \in 1 .. Len(page.filtered_df.data) :
           page.filtered_df.data[i]["Created"] # NaT

\* An export of a view without rows, loaded again.
C7_WitnessEmptyView ==
    /\ reloaded.done
    /\ Len(page.filtered_df.data) = 0

\* C8: a load of a readable file with Category and Review_Flag succeeds and
\* keeps the number of rows whatever its date texts are; in each date column
\* that is present a text in the fixed format becomes its day and every
\* other value becomes NaT.
C8_MalformedDatesBecomeNaT ==
    [][ ( /\ ~ loaded.hit
          /\ loaded'.hit
          /\ disk.readable
          /\ required_columns \subseteq disk.cols )
        => /\ loaded'.ok
           /\ Len(loaded'.df.data) = Len(disk.rows)
           /\ \A c \in Range(date_columns) \cap disk.cols :
              \A i \in 1 .. Len(disk.rows) :
                 IF \E d \in 1 .. Len(DMYText) : disk.rows[i][c] = DMYText[d]
                 THEN DMYText[loaded'.df.data[i][c]] = disk.rows[i][c]
                 ELSE loaded'.df.data[i][c] = NaT ]_vars

\* A loaded table of a file with a malformed, non-empty Created text and a
\* malformed Resolved text.
C8_Witness ==
    /\ loaded.hit /\ loaded.ok
    /\ "Created" \in disk.cols
    /\ \E i \in 1 .. Len(disk.rows) :
          /\ disk.rows[i]["Created"] = "yesterday"
          /\ loaded.df.data[i]["Created"] = NaT
    /\ \E i \in 1 .. Len(disk.rows) :
          /\ disk.rows[i]["Resolved"] = "13/13/2024 09:00"
          /\ loaded.df.data[i]["Resolved"] = NaT

C10_LoadMemoized ==
    [][ /\ reads' <= 1
        /\ loaded.hit => (loaded' = loaded /\ reads' = reads)
        /\ page'.status # "none" =>
             /\ loaded'.hit
             /\ page'.status = "failed" <=> ~ loaded'.ok
             /\ loaded'.ok =>
                  /\ page'.categories = category_options(loaded'.df)
                  /\ Labels(page'.filtered_df) \subseteq Labels(loaded'.df) ]_vars

\* A page rendered by a later run (a review status has been picked) from the
\* one read, the file having been moved away since.
C10_Witness ==
    /\ reads = 1
    /\ page.status = "rendered"
    /\ page.selected_review # "All"
    /\ ~ disk.readable

\* The failure page of a stored None while the file has become loadable.
C10_WitnessStoredNone ==
    /\ reads = 1
    /\ page.status = "failed"
    /\ disk.readable
    /\ required_columns \subseteq disk.cols

====
